---- MODULE Spec2Model ----
(***************************************************************************)
(* Rainflow cycle counting of src/rainflow/rainflow.js:                    *)
(*   reversals(series) -> extractCycles(series) -> countCycles(series,bin) *)
(*                                                                         *)
(* One behaviour of the model is one call countCycles(series, binsize).    *)
(* The three loops of the code are unrolled one iteration per step, so the *)
(* working stack, the cycle list and the counts map are visible while the  *)
(* call runs.                                                              *)
(*                                                                         *)
(* Numbers.  Samples are integers.  The code multiplies by 0.5 and adds    *)
(* counts of 0.5 and 1.0; these are kept as integer multiples of one half: *)
(* a count c is stored as 2*c and a mean m as 2*m (HalfCount = 1 is 0.5,   *)
(* FullCount = 2 is 1.0).  The non-finite JavaScript values that the code  *)
(* can produce (undefined, NaN, Infinity) are three reserved integers far  *)
(* outside the range of the finite values of the model; the arithmetic     *)
(* operators below give them the IEEE-754 / ECMAScript meaning.            *)
(***************************************************************************)
EXTENDS Integers, Sequences, FiniteSets, TLC

\* ---------------------------------------------------------------- bounds
MaxLen == 5      \* longest enumerated signal
MaxVal == 2      \* samples are drawn from 0..MaxVal
MaxBin == 1      \* bin widths are drawn from -MaxBin..MaxBin
MaxSpin == 2     \* densify index at which a loop that never ends stops being counted

\* -------------------------------------------------- JavaScript numbers
Infinity == 1000
NaN == 1001
Undefined == 1002

\* ToNumber: undefined coerces to NaN in arithmetic
ToNum(a) == IF a = Undefined THEN NaN ELSE a

IsNaN(a) == ToNum(a) = NaN

\* a - b
Minus(a, b) ==
  IF IsNaN(a) \/ IsNaN(b) THEN NaN
  ELSE IF a = Infinity /\ b = Infinity THEN NaN
  ELSE IF a = Infinity THEN Infinity
  ELSE a - b

\* a + b
Plus(a, b) ==
  IF IsNaN(a) \/ IsNaN(b) THEN NaN
  ELSE IF a = Infinity \/ b = Infinity THEN Infinity
  ELSE a + b

\* a * b   (Infinity * 0 is NaN)
Times(a, b) ==
  IF IsNaN(a) \/ IsNaN(b) THEN NaN
  ELSE IF a = Infinity \/ b = Infinity
       THEN (IF a = 0 \/ b = 0 THEN NaN ELSE Infinity)
  ELSE a * b

\* Math.abs(a)
Abs(a) ==
  IF IsNaN(a) THEN NaN
  ELSE IF a = Infinity THEN Infinity
  ELSE IF a < 0 THEN -a ELSE a

\* a < b   (false as soon as one side is NaN)
Lt(a, b) ==
  IF IsNaN(a) \/ IsNaN(b) THEN FALSE
  ELSE IF a = Infinity THEN FALSE
  ELSE IF b = Infinity THEN TRUE
  ELSE a < b

\* slip: the flat-repeat test never succeeds, repeats go through the scan
StrictEqNever(a, b) == FALSE

\* a === b on numbers and undefined (NaN is not equal to itself)
StrictEq(a, b) == a # NaN /\ b # NaN /\ a = b

\* Math.max(a, b)
MathMax(a, b) ==
  IF IsNaN(a) \/ IsNaN(b) THEN NaN
  ELSE IF a = Infinity \/ b = Infinity THEN Infinity
  ELSE IF a < b THEN b ELSE a

\* Math.ceil(a / b) for a >= 0: x/0 is Infinity, 0/0 is NaN
CeilDiv(a, b) ==
  IF IsNaN(a) \/ IsNaN(b) THEN NaN
  ELSE IF b = 0 THEN (IF a = 0 THEN NaN ELSE Infinity)
  ELSE IF b > 0 THEN -((-a) \div b)
  ELSE -(a \div (-b))

\* v || 0 : the falsy numbers 0, NaN and undefined give 0
OrZero(v) == IF IsNaN(v) \/ v = 0 THEN 0 ELSE v

\* series[idx], undefined outside the array
At(s, idx) == IF idx >= 0 /\ idx < Len(s) THEN s[idx + 1] ELSE Undefined

\* ------------------------------------------- property keys of an object
\* A property key is a string, held as its sequence of characters.
Digit(d) ==
  CASE d = 0 -> "0" [] d = 1 -> "1" [] d = 2 -> "2" [] d = 3 -> "3"
    [] d = 4 -> "4" [] d = 5 -> "5" [] d = 6 -> "6" [] d = 7 -> "7"
    [] d = 8 -> "8" [] d = 9 -> "9"

DigitVal(c) ==
  CASE c = "0" -> 0 [] c = "1" -> 1 [] c = "2" -> 2 [] c = "3" -> 3
    [] c = "4" -> 4 [] c = "5" -> 5 [] c = "6" -> 6 [] c = "7" -> 7
    [] c = "8" -> 8 [] c = "9" -> 9 [] OTHER -> NaN

RECURSIVE Digits(_)
Digits(n) == IF n < 10 THEN <<Digit(n)>> ELSE Append(Digits(n \div 10), Digit(n % 10))

\* String(v): the key under which counts[v] is stored
ToKey(v) ==
  IF IsNaN(v) THEN <<"N", "a", "N">>
  ELSE IF v = Infinity THEN <<"I", "n", "f", "i", "n", "i", "t", "y">>
  ELSE IF v < 0 THEN <<"-">> \o Digits(-v)
  ELSE Digits(v)

RECURSIVE ParseDigits(_, _)
ParseDigits(cs, acc) ==
  IF cs = <<>> THEN acc
  ELSE IF IsNaN(DigitVal(Head(cs))) THEN NaN
  ELSE ParseDigits(Tail(cs), 10 * acc + DigitVal(Head(cs)))

\* Number(key): the coercion done by a[0] - b[0] in the comparator
KeyNum(key) ==
  IF key = <<>> THEN 0
  ELSE IF key = <<"I", "n", "f", "i", "n", "i", "t", "y">> THEN Infinity
  ELSE IF Head(key) = "-"
       THEN (IF Tail(key) = <<>> THEN NaN
             ELSE LET m == ParseDigits(Tail(key), 0) IN IF IsNaN(m) THEN NaN ELSE -m)
  ELSE ParseDigits(key, 0)

\* an own key that is a canonical array index is enumerated before the others
IsIndexKey(key) == ~IsNaN(KeyNum(key)) /\ KeyNum(key) # Infinity /\ KeyNum(key) >= 0

\* ---------------------------------------------------------------- inputs
RECURSIVE SeqsUpTo(_, _)
SeqsUpTo(S, n) ==
  IF n = 0 THEN {<<>>}
  ELSE LET shorter == SeqsUpTo(S, n - 1)
       IN shorter \cup {Append(s, v) : s \in {t \in shorter : Len(t) = n - 1}, v \in S}

Scenario1 == <<0, 5, 2, 8, 12>>
Scenario2 == <<0, 5, 0>>
ScenarioBins == {5}

Signals == SeqsUpTo(0..MaxVal, MaxLen) \cup {Scenario1, Scenario2}

\* binsize = null is <<>>, binsize = w is <<w>>
NoBin == <<>>
BinSizes == {NoBin} \cup {<<w>> : w \in (-MaxBin..MaxBin) \cup ScenarioBins}

\* ------------------------------------------------------------------ state
VARIABLES
  series,    \* argument of countCycles / extractCycles / reversals
  binsize,   \* argument of countCycles
  pc,        \* position of the call
  xLast, x, dLast, i, result,   \* locals of reversals
  k, points, cycles,            \* locals of extractCycles (k: next reversal of the for-of)
  c, counts, nmax, bi,          \* locals of countCycles (c: next cycle, bi: the i of line 88)
  hist       \* value returned by countCycles

vars == <<series, binsize, pc, xLast, x, dLast, i, result, k, points, cycles,
          c, counts, nmax, bi, hist>>

revVars == <<xLast, x, dLast, i, result>>
extVars == <<k, points, cycles>>
cntVars == <<c, counts, nmax, bi, hist>>
inVars == <<series, binsize>>

HalfCount == 1   \* 0.5
FullCount == 2   \* 1.0

Init ==
  /\ series \in Signals
  /\ binsize \in BinSizes
  /\ pc = "call"
  /\ xLast = Undefined /\ x = Undefined /\ dLast = Undefined /\ i = 0
  /\ result = <<>>
  /\ k = 1 /\ points = <<>> /\ cycles = <<>>
  /\ c = 1 /\ counts = <<>> /\ nmax = 0 /\ bi = 1
  /\ hist = <<>>

\* -------------------------------------------------------------- reversals
\* lines 4-8: locals, first point, loop index
ReversalsEnter ==
  /\ pc = "call"
  /\ xLast' = At(series, 0)
  /\ x' = At(series, 1)
  /\ dLast' = Minus(At(series, 1), At(series, 0))
  /\ result' = <<<<0, At(series, 0)>>>>
  /\ i' = 1
  /\ pc' = "scan"
  /\ UNCHANGED <<inVars, extVars, cntVars>>

\* slip: <= 0 in place of < 0, a flat start counts as a change of direction
IsReversalOrFlat(d1, d2) == ~Lt(0, Times(d1, d2))

\* the test of line 14
IsReversal(d1, d2) == Lt(Times(d1, d2), 0)

\* lines 10-20: one iteration of the scan
ReversalsScan ==
  /\ pc = "scan"
  /\ i < Len(series)
  /\ LET xNext == At(series, i)
         dNext == Minus(xNext, x)
     IN IF StrictEq(xNext, x)
        THEN UNCHANGED <<xLast, x, dLast, result>>
        ELSE /\ result' = IF IsReversal(dLast, dNext)
                          THEN Append(result, <<i, x>>)
                          ELSE result
             /\ xLast' = x
             /\ x' = xNext
             /\ dLast' = dNext
  /\ i' = i + 1
  /\ UNCHANGED <<pc, inVars, extVars, cntVars>>

\* slip: the final point indexed one past the end
FinalPointPastEnd(s, xv) == <<Len(s), xv>>

\* the point pushed by line 21
FinalPoint(s, xv) == <<Len(s) - 1, xv>>

\* lines 21-22: final point, return to the for-of of extractCycles
ReversalsReturn ==
  /\ pc = "scan"
  /\ ~(i < Len(series))
  /\ result' = Append(result, FinalPoint(series, x))
  /\ pc' = "feed"
  /\ UNCHANGED <<xLast, x, dLast, i, inVars, extVars, cntVars>>

\* ---------------------------------------------------------- extractCycles
\* slip: Math.abs left out of the range
formatOutputSigned(point1, point2, count) ==
  <<Minus(point1[2], point2[2]), Plus(point1[2], point2[2]), count, point1[1], point2[1]>>

\* slip: mean taken as the sum, the factor 0.5 left out
formatOutputUnhalved(point1, point2, count) ==
  <<Abs(Minus(point1[2], point2[2])), Times(2, Plus(point1[2], point2[2])), count,
    point1[1], point2[1]>>

\* lines 29-35
formatOutput(point1, point2, count) ==
  LET i1 == point1[1]
      x1 == point1[2]
      i2 == point2[1]
      x2 == point2[2]
      rng == Abs(Minus(x1, x2))
      mean == Plus(x1, x2)
  IN <<rng, mean, count, i1, i2>>

\* slip: shift() forgotten, the stack keeps its oldest point
ShiftNone(ps) == ps

\* slip: pop() in place of shift(), the newest point leaves instead of the oldest
ShiftPop(ps) == SubSeq(ps, 1, Len(ps) - 1)

\* points.shift()
Shift(ps) == Tail(ps)

\* slip: push(last) forgotten, all three points leave the stack
CollapseDropLast(ps) == SubSeq(ps, 1, Len(ps) - 3)

\* slip: the middle point is pushed back in place of the newest
CollapseKeepMiddle(ps) == Append(SubSeq(ps, 1, Len(ps) - 3), ps[Len(ps) - 1])

\* slip: one pop() too few, only the middle point leaves the stack
CollapsePopTwo(ps) == Append(SubSeq(ps, 1, Len(ps) - 2), ps[Len(ps)])

\* lines 60-63: pop three, push the newest back
Collapse(ps) == Append(SubSeq(ps, 1, Len(ps) - 3), ps[Len(ps)])

\* lines 41-45
TopX(ps) == Abs(Minus(ps[Len(ps)][2], ps[Len(ps) - 1][2]))
TopY(ps) == Abs(Minus(ps[Len(ps) - 1][2], ps[Len(ps) - 2][2]))

\* slip: X <= Y in place of X < Y, a tie waits instead of closing
TooSmallOrEqual(ps) == ~Lt(TopY(ps), TopX(ps))

\* the test of line 47: X < Y
TooSmall(ps) == Lt(TopX(ps), TopY(ps))

\* lines 37-38: next reversal of the for-of, pushed on the stack
Feed ==
  /\ pc = "feed"
  /\ k <= Len(result)
  /\ points' = Append(points, result[k])
  /\ k' = k + 1
  /\ pc' = "close"
  /\ UNCHANGED <<cycles, inVars, revVars, cntVars>>

\* line 40 false: fewer than 3 points, back to the for-of
CloseExit ==
  /\ pc = "close"
  /\ Len(points) < 3
  /\ pc' = "feed"
  /\ UNCHANGED <<k, points, cycles, inVars, revVars, cntVars>>

\* lines 47-48: X < Y, break
CloseBreak ==
  /\ pc = "close"
  /\ Len(points) >= 3
  /\ TooSmall(points)
  /\ pc' = "feed"
  /\ UNCHANGED <<k, points, cycles, inVars, revVars, cntVars>>

\* lines 49-51: exactly three points, half cycle over the two oldest
CloseHalf ==
  /\ pc = "close"
  /\ Len(points) = 3
  /\ ~TooSmall(points)
  /\ cycles' = Append(cycles, formatOutput(points[1], points[2], HalfCount))
  /\ points' = Shift(points)
  /\ UNCHANGED <<pc, k, inVars, revVars, cntVars>>

\* lines 52-64: more than three points, full cycle over the two below the top
CloseFull ==
  /\ pc = "close"
  /\ Len(points) > 3
  /\ ~TooSmall(points)
  /\ cycles' = Append(cycles,
                 formatOutput(points[Len(points) - 2], points[Len(points) - 1], FullCount))
  /\ points' = Collapse(points)
  /\ UNCHANGED <<pc, k, inVars, revVars, cntVars>>

\* for-of exhausted
FeedDone ==
  /\ pc = "feed"
  /\ k > Len(result)
  /\ pc' = "drain"
  /\ UNCHANGED <<k, points, cycles, inVars, revVars, cntVars>>

\* lines 68-71: one iteration of the drain
Drain ==
  /\ pc = "drain"
  /\ Len(points) > 1
  /\ cycles' = Append(cycles, formatOutput(points[1], points[2], HalfCount))
  /\ points' = Shift(points)
  /\ UNCHANGED <<pc, k, inVars, revVars, cntVars>>

\* line 73 and line 78: return cycles, countCycles keeps [rng, count]
ExtractReturn ==
  /\ pc = "drain"
  /\ ~(Len(points) > 1)
  /\ pc' = "count"
  /\ UNCHANGED <<k, points, cycles, inVars, revVars, cntVars>>

\* ------------------------------------------------------------ countCycles
\* counts is an object: its entries <<key, value>> are held in insertion order.
HasKey(cs, key) == \E p \in 1..Len(cs) : cs[p][1] = key

\* counts[key], undefined when the key is absent
Get(cs, key) ==
  IF HasKey(cs, key) THEN cs[CHOOSE p \in 1..Len(cs) : cs[p][1] = key][2] ELSE Undefined

\* counts[key] = v
Put(cs, key, v) ==
  IF HasKey(cs, key)
  THEN [p \in 1..Len(cs) |-> IF cs[p][1] = key THEN <<key, v>> ELSE cs[p]]
  ELSE Append(cs, <<key, v>>)

\* slip: the bucket is overwritten instead of added to
AccumulateOverwrite(cs, key, count) == Put(cs, key, count)

\* lines 84 and 93: counts[key] = (counts[key] || 0) + count
Accumulate(cs, key, count) == Put(cs, key, Plus(OrZero(Get(cs, key)), count))

\* line 89: counts[key] = counts[key] || 0
Ensure(cs, key) == Put(cs, key, OrZero(Get(cs, key)))

\* slip: Math.floor in place of Math.ceil
BinOfFloor(rng, w) == IF w > 0 /\ ~IsNaN(rng) THEN rng \div w ELSE CeilDiv(rng, w)

\* line 83
BinOf(rng, w) == CeilDiv(rng, w)

\* the key of lines 84 and 89
BinKey(n, w) == ToKey(Times(n, w))

\* slip: the densify loop stops one bucket early
DensifyMoreShort(iv, nm) == Lt(iv + 1, nm)

\* the loop test of line 88
DensifyMore(iv, nm) == Lt(iv, nm)

\* lines 82-86: one cycle accumulated into its bucket
CountBinned ==
  /\ pc = "count"
  /\ binsize # NoBin
  /\ c <= Len(cycles)
  /\ LET w == binsize[1]
         rng == cycles[c][1]
         count == cycles[c][3]
         n == BinOf(rng, w)
     IN /\ counts' = Accumulate(counts, BinKey(n, w), count)
        /\ nmax' = MathMax(n, nmax)
  /\ c' = c + 1
  /\ UNCHANGED <<pc, bi, hist, inVars, revVars, extVars>>

\* lines 92-94: one cycle accumulated under its exact range
CountExact ==
  /\ pc = "count"
  /\ binsize = NoBin
  /\ c <= Len(cycles)
  /\ LET rng == cycles[c][1]
         count == cycles[c][3]
     IN counts' = Accumulate(counts, ToKey(rng), count)
  /\ c' = c + 1
  /\ UNCHANGED <<pc, nmax, bi, hist, inVars, revVars, extVars>>

\* the for-of over the cycles is exhausted; line 88 sets i = 1 when binning
CountDone ==
  /\ pc = "count"
  /\ c > Len(cycles)
  /\ pc' = IF binsize # NoBin THEN "densify" ELSE "sort"
  /\ bi' = 1
  /\ UNCHANGED <<c, counts, nmax, hist, inVars, revVars, extVars>>

\* lines 88-90: one iteration of the densify loop.  With nmax = Infinity the
\* loop never ends; the index is then no longer counted beyond MaxSpin.
Densify ==
  /\ pc = "densify"
  /\ DensifyMore(bi, nmax)
  /\ counts' = Ensure(counts, BinKey(bi, binsize[1]))
  /\ bi' = IF nmax = Infinity /\ bi >= MaxSpin THEN bi ELSE bi + 1
  /\ UNCHANGED <<pc, c, nmax, hist, inVars, revVars, extVars>>

DensifyExit ==
  /\ pc = "densify"
  /\ ~DensifyMore(bi, nmax)
  /\ pc' = "sort"
  /\ UNCHANGED <<c, counts, nmax, bi, hist, inVars, revVars, extVars>>

\* slip: b[0] - a[0], the order reversed
CompareReversed(a, b) == Minus(KeyNum(b[1]), KeyNum(a[1]))

\* the comparator of line 97: a[0] - b[0] on the keys
Compare(a, b) == Minus(KeyNum(a[1]), KeyNum(b[1]))

\* stable insertion: e goes behind every entry the comparator does not put after it
RECURSIVE InsertEntry(_, _)
InsertEntry(s, e) ==
  IF s = <<>> THEN <<e>>
  ELSE IF Lt(0, Compare(s[Len(s)], e))
       THEN Append(InsertEntry(SubSeq(s, 1, Len(s) - 1), e), s[Len(s)])
       ELSE Append(s, e)

RECURSIVE SortEntries(_)
SortEntries(es) ==
  IF es = <<>> THEN <<>>
  ELSE InsertEntry(SortEntries(SubSeq(es, 1, Len(es) - 1)), es[Len(es)])

IsIndexEntry(e) == IsIndexKey(e[1])
IsNamedEntry(e) == ~IsIndexKey(e[1])

\* Object.entries(counts): array-index keys ascending, then the others as inserted
ObjectEntries(cs) == SortEntries(SelectSeq(cs, IsIndexEntry)) \o SelectSeq(cs, IsNamedEntry)

\* line 97
Return ==
  /\ pc = "sort"
  /\ hist' = SortEntries(ObjectEntries(counts))
  /\ pc' = "done"
  /\ UNCHANGED <<c, counts, nmax, bi, inVars, revVars, extVars>>

Next ==
  \/ ReversalsEnter \/ ReversalsScan \/ ReversalsReturn
  \/ Feed \/ CloseExit \/ CloseBreak \/ CloseHalf \/ CloseFull \/ FeedDone
  \/ Drain \/ ExtractReturn
  \/ CountBinned \/ CountExact \/ CountDone \/ Densify \/ DensifyExit \/ Return

Spec == Init /\ [][Next]_vars

\* --------------------------------------- extractCycles on its own, to its return
\* the call extractCycles(series) of line 78; binsize is not read before it returns
ExtractInit == Init /\ binsize = NoBin

ExtractNext ==
  \/ ReversalsEnter \/ ReversalsScan \/ ReversalsReturn
  \/ Feed \/ CloseExit \/ CloseBreak \/ CloseHalf \/ CloseFull \/ FeedDone
  \/ Drain \/ ExtractReturn

\* the code is one synchronous thread: a statement that can run does run
ExtractSpec == ExtractInit /\ [][ExtractNext]_vars /\ WF_vars(ExtractNext)

\* ------------------------------------------------------------ type check
TypeOK ==
  /\ series \in Signals
  /\ binsize \in BinSizes
  /\ pc \in {"call", "scan", "feed", "close", "drain", "count", "densify", "sort", "done"}
  /\ i \in 0..(MaxLen + 1)
  /\ k \in 1..(Len(result) + 1)
  /\ c \in 1..(Len(cycles) + 1)

\* ================================================================ claims
Scanned == pc \notin {"call", "scan"}
Extracted == pc \in {"count", "densify", "sort", "done"}
Returned == pc = "done"
ValidSignal == Len(series) >= 2
Binned == binsize # NoBin
PositiveBin == binsize # NoBin /\ binsize[1] > 0

RECURSIVE SumField(_, _)
SumField(seq, f) == IF seq = <<>> THEN 0 ELSE seq[1][f] + SumField(Tail(seq), f)

\* sum of count over the cycles, in halves
SumCounts == SumField(cycles, 3)
\* sum of totalCount over the histogram, in halves
SumTotals == SumField(hist, 2)

NumHalf == Cardinality({p \in DOMAIN cycles : cycles[p][3] = HalfCount})
NumFull == Cardinality({p \in DOMAIN cycles : cycles[p][3] = FullCount})

\* the histogram with its keys read as numbers
HistNum == [p \in DOMAIN hist |-> <<KeyNum(hist[p][1]), hist[p][2]>>]

\* C1 as stated: for every valid signal the sum of count over the cycles of
\* extractCycles equals (number of reversals) - 1.  In halves: 2 * (N - 1).
C1_Original ==
  (ValidSignal /\ Extracted) => SumCounts = 2 * (Len(result) - 1)

\* C1 amended: for every valid signal the sum of count over the cycles of
\* extractCycles equals ((number of reversals) - 1) / 2: a half cycle uses up
\* one reversal and a full cycle two.  In halves: N - 1.
C1_Conservation ==
  (ValidSignal /\ Extracted) =>
     /\ SumCounts = Len(result) - 1
     /\ NumHalf + 2 * NumFull = Len(result) - 1

C1_Witness ==
  ValidSignal /\ Returned /\ NumFull >= 1 /\ NumHalf >= 2 /\ Len(result) >= 5

\* C2: in both modes of countCycles (binsize null, binsize > 0) the sum of
\* totalCount over the returned histogram equals the sum of count over the
\* extracted cycles.
C2_MassPreserved ==
  (Returned /\ (~Binned \/ PositiveBin)) => SumTotals = SumCounts

\* two cycles share a bucket, with binning and with a densified empty bucket
C2_Witness ==
  /\ Returned /\ ValidSignal /\ PositiveBin
  /\ Len(hist) < Len(cycles)
  /\ \E p \in DOMAIN hist : hist[p][2] = 0
  /\ \E p \in DOMAIN hist : hist[p][2] >= 3

C2_WitnessExact ==
  Returned /\ ValidSignal /\ ~Binned /\ Len(hist) < Len(cycles) /\ Len(hist) >= 2

\* n = ceil(rng / w) for w > 0, rng >= 0: the least n with n * w >= rng
BucketIndex(rng, w) == CHOOSE n \in 0..rng : n * w >= rng /\ (n = 0 \/ (n - 1) * w < rng)

ObservedBuckets == {BucketIndex(cycles[p][1], binsize[1]) : p \in DOMAIN cycles}

MaxObserved == CHOOSE n \in ObservedBuckets : \A m \in ObservedBuckets : m <= n

EntriesAt(key) == {p \in DOMAIN hist : KeyNum(hist[p][1]) = key}

\* C3: with a bin width w > 0 the histogram has an entry at key i*w for every
\* i in 1..max n, with total 0 where no cycle mapped, and an entry at key 0
\* only if a cycle mapped there (densification never creates it).
C3_Densified ==
  (Returned /\ ValidSignal /\ PositiveBin) =>
     LET w == binsize[1] IN
     /\ \A n \in 1..MaxObserved :
          /\ Cardinality(EntriesAt(n * w)) = 1
          /\ n \notin ObservedBuckets => \A p \in EntriesAt(n * w) : hist[p][2] = 0
     /\ EntriesAt(0) # {} => 0 \in ObservedBuckets
     /\ \A p \in DOMAIN hist : \E n \in 0..MaxObserved : KeyNum(hist[p][1]) = n * w

\* a gap of two empty buckets below the largest one
C3_Witness ==
  /\ Returned /\ ValidSignal /\ PositiveBin
  /\ MaxObserved >= 3
  /\ 1 \notin ObservedBuckets /\ (MaxObserved - 1) \notin ObservedBuckets
  /\ Len(hist) = MaxObserved

\* C4: for every signal of length >= 2 the reversal sequence starts with
\* (0, signal[0]) and ends with (length-1, signal[length-1]).
C4_BoundaryInclusion ==
  (ValidSignal /\ Scanned) =>
     /\ result[1] = <<0, series[1]>>
     /\ result[Len(result)] = <<Len(series) - 1, series[Len(series)]>>

\* a signal with interior reversals that ends in a flat run
C4_Witness ==
  /\ ValidSignal /\ Scanned /\ Len(result) >= 3
  /\ series[Len(series)] = series[Len(series) - 1]
  /\ series[1] # series[Len(series)]

\* maximal runs <<a, b>> (positions 1..Len) of two or more equal consecutive samples
FlatRuns ==
  {r \in (1..Len(series)) \X (1..Len(series)) :
     /\ r[1] < r[2]
     /\ \A q \in r[1]..r[2] : series[q] = series[r[1]]
     /\ (r[1] > 1 => series[r[1] - 1] # series[r[1]])
     /\ (r[2] < Len(series) => series[r[2] + 1] # series[r[1]])}

WholeSignal == <<1, Len(series)>>

\* position (1..Len) of the sample whose value reversal entry j carries: the
\* first entry carries sample 0, the final entry the last sample, and an entry
\* [i, x] pushed by the scan carries the sample before scan index i
Origin(j) ==
  IF j = 1 THEN 1
  ELSE IF j = Len(result) THEN Len(series)
  ELSE result[j][1]

EntriesFrom(r) == {j \in DOMAIN result : Origin(j) \in r[1]..r[2]}

\* C5 as stated: every maximal run of 2 or more equal samples results in at
\* most one reversal entry, runs spanning the whole signal included.
C5_Original ==
  (ValidSignal /\ Scanned) => \A r \in FlatRuns : Cardinality(EntriesFrom(r)) <= 1

\* C5 amended: every maximal run of 2 or more equal samples that does not span
\* the whole signal results in at most one reversal entry; a run spanning the
\* whole signal results in exactly the two boundary entries (0, v), (length-1, v).
C5_FlatRunCollapse ==
  (ValidSignal /\ Scanned) =>
     /\ \A j \in DOMAIN result : result[j][2] = series[Origin(j)]
     /\ \A r \in FlatRuns \ {WholeSignal} : Cardinality(EntriesFrom(r)) <= 1
     /\ WholeSignal \in FlatRuns =>
          result = <<<<0, series[1]>>, <<Len(series) - 1, series[1]>>>>

\* runs at the start, inside and at the end, the inner one being a reversal
C5_Witness ==
  /\ ValidSignal /\ Scanned
  /\ \E r \in FlatRuns : r[1] = 1 /\ r[2] < Len(series)
  /\ \E r \in FlatRuns : r[1] > 1 /\ r[2] < Len(series) /\ Cardinality(EntriesFrom(r)) = 1

\* C6: for the signal [0, 5, 2, 8, 12] reversals yields [(0,0), (2,5), (3,2),
\* (4,12)] and extractCycles yields, in this order, (range 3, mean 3.5, count
\* 1.0, 2, 3) and (range 12, mean 6, count 0.5, 0, 4).
C6_Scenario ==
  series = Scenario1 =>
     /\ Scanned => result = <<<<0, 0>>, <<2, 5>>, <<3, 2>>, <<4, 12>>>>
     /\ Extracted => cycles = <<<<3, 7, FullCount, 2, 3>>, <<12, 12, HalfCount, 0, 4>>>>

C6_Witness == series = Scenario1 /\ pc = "count" /\ c = 1 /\ Len(cycles) = 2

\* C7: for the signal [0, 5, 2, 8, 12] countCycles returns [(3, 1.0), (12, 0.5)]
\* without binning and [(5, 1.0), (10, 0), (15, 0.5)] with bin width 5.
C7_Scenario ==
  (series = Scenario1 /\ Returned) =>
     /\ ~Binned => HistNum = <<<<3, 2>>, <<12, 1>>>>
     /\ binsize = <<5>> => HistNum = <<<<5, 2>>, <<10, 0>>, <<15, 1>>>>

C7_Witness == series = Scenario1 /\ Returned /\ binsize = <<5>> /\ Len(hist) = 3

\* C8: for every signal of length < 2 the call fails: it does not return, and
\* no reversal, cycle or histogram entry is produced.
C8_Claim ==
  Len(series) < 2 =>
     /\ pc # "done"
     /\ result = <<>> /\ cycles = <<>> /\ counts = <<>> /\ hist = <<>>

\* what the code does on such a signal: one half cycle of range NaN is counted
C8_Observed ==
  (Len(series) < 2 /\ Returned) =>
     /\ Len(result) = 2 /\ Len(cycles) = 1 /\ IsNaN(cycles[1][1])
     /\ hist = <<<<ToKey(NaN), HalfCount>>>>

\* C9: whenever a bin width <= 0 is provided the call fails: no histogram is
\* returned.
C9_Claim ==
  (ValidSignal /\ Binned /\ binsize[1] <= 0) => (pc # "done" /\ hist = <<>>)

\* C10: for every valid signal every reversal (index, value) has
\* 0 <= index <= length-1 and signal[index] = value.
C10_Claim ==
  (ValidSignal /\ Scanned) =>
     \A j \in DOMAIN result :
        /\ result[j][1] \in 0..(Len(series) - 1)
        /\ series[result[j][1] + 1] = result[j][2]

\* what the code does: an entry pushed by the scan carries the sample before
\* its index
C10_Observed ==
  (ValidSignal /\ Scanned) =>
     \A j \in DOMAIN result :
        /\ result[j][1] \in 0..(Len(series) - 1)
        /\ (1 < j /\ j < Len(result)) =>
              /\ result[j][1] >= 2
              /\ result[j][2] = series[result[j][1]]
              /\ result[j][2] # series[result[j][1] + 1]

Values(ps) == [p \in DOMAIN ps |-> ps[p][2]]
ConstantSignal == \A q \in DOMAIN series : series[q] = series[1]

\* the case of two entries at the last index: the scan pushed an entry at
\* index length-1 and the final push follows it
BoundaryCaseAt(j) ==
  /\ j > 1 /\ j + 1 = Len(result)
  /\ result[j][1] = Len(series) - 1
  /\ result[j + 1][1] = Len(series) - 1

\* C11 as stated: for every valid signal two consecutive reversal entries have
\* non-equal values, except where the scan and the final push both emit an
\* entry at the last index.
C11_Original ==
  (ValidSignal /\ Scanned) =>
     \A j \in 1..(Len(result) - 1) :
        result[j][2] # result[j + 1][2] \/ BoundaryCaseAt(j)

\* C11 amended: for every valid signal that is not constant, any two
\* consecutive reversal entries have non-equal values, the two entries at the
\* last index included; a constant signal yields two entries of equal value.
C11_ConsecutiveDistinct ==
  (ValidSignal /\ Scanned) =>
     /\ ~ConstantSignal =>
          \A j \in 1..(Len(result) - 1) : result[j][2] # result[j + 1][2]
     /\ ConstantSignal =>
          Len(result) = 2 /\ result[1][2] = result[2][2]

\* two entries at the last index, after a flat run inside the signal
C11_Witness ==
  /\ ValidSignal /\ Scanned /\ Len(result) >= 4
  /\ BoundaryCaseAt(Len(result) - 1)
  /\ \E q \in 2..(Len(series) - 2) : series[q] = series[q + 1]

\* C12: in both modes the returned histogram is strictly ascending by the
\* numeric value of binKey, each key in exactly one entry.
C12_Ascending ==
  Returned =>
     /\ \A p \in 1..(Len(hist) - 1) : Lt(KeyNum(hist[p][1]), KeyNum(hist[p + 1][1]))
     /\ \A p, q \in DOMAIN hist : p # q => hist[p][1] # hist[q][1]
     /\ \A p \in DOMAIN counts : \E q \in DOMAIN hist : hist[q] = counts[p]
     /\ Len(hist) = Len(counts)

\* three keys that were inserted out of order
C12_Witness ==
  /\ Returned /\ Len(hist) >= 3
  /\ KeyNum(counts[1][1]) > KeyNum(counts[2][1])
  /\ hist # counts

\* plain |a - b| on finite values
Dist(a, b) == IF a < b THEN b - a ELSE a - b

\* the cycle over the stack points p1, p2 (mean in halves)
CycleOver(p1, p2, count) == <<Dist(p1[2], p2[2]), p1[2] + p2[2], count, p1[1], p2[1]>>

C13_Fields ==
  ValidSignal =>
     \A p \in DOMAIN cycles :
        /\ cycles[p][1] >= 0 /\ cycles[p][1] < Infinity
        /\ cycles[p][3] \in {HalfCount, FullCount}

\* a step that emits a cycle appends the cycle over two adjacent stack points
C13_Emit ==
  (ValidSignal /\ cycles' # cycles) =>
     \E q \in 1..(Len(points) - 1), count \in {HalfCount, FullCount} :
        cycles' = Append(cycles, CycleOver(points[q], points[q + 1], count))

\* C13: every cycle emitted by extractCycles, from the closure loop or from
\* the drain, has range = |v1 - v2| >= 0 and mean = (v1 + v2) / 2 of its two
\* defining points and count 0.5 or 1.0.
C13_CycleShape == [][C13_Emit]_vars /\ []C13_Fields

\* a full cycle, a closure half cycle and a drain half cycle, one with a
\* mean that is not an integer
C13_Witness ==
  /\ ValidSignal /\ pc = "count" /\ c = 1
  /\ NumFull >= 1 /\ NumHalf >= 2
  /\ \E p \in DOMAIN cycles : cycles[p][2] % 2 = 1

Consumed == pc = "feed" /\ k > Len(result)

\* C14 as stated: for [0, 5, 0] no cycle is closed while the reversals are
\* consumed, the drain produces two half cycles of range 5, and the
\* histogram without binning is [(5, 1.0)].
C14_Original ==
  series = Scenario2 =>
     /\ pc \in {"feed", "close"} => cycles = <<>>
     /\ Extracted => /\ Len(cycles) = 2
                     /\ \A p \in DOMAIN cycles : cycles[p][1] = 5 /\ cycles[p][3] = HalfCount
     /\ (Returned /\ ~Binned) => HistNum = <<<<5, 2>>>>

\* C14 amended: for [0, 5, 0] the closure loop closes one half cycle of range
\* 5 when the third reversal is consumed (X = Y = 5), the drain produces the
\* second half cycle of range 5, and the histogram without binning is
\* [(5, 1.0)].
C14_Scenario ==
  series = Scenario2 =>
     /\ Scanned => result = <<<<0, 0>>, <<2, 5>>, <<2, 0>>>>
     /\ Consumed => cycles = <<<<5, 5, HalfCount, 0, 2>>>>
     /\ Extracted => cycles = <<<<5, 5, HalfCount, 0, 2>>, <<5, 5, HalfCount, 2, 2>>>>
     /\ (Returned /\ ~Binned) => HistNum = <<<<5, 2>>>>

C14_Witness == series = Scenario2 /\ Returned /\ ~Binned /\ Len(hist) = 1 /\ Len(cycles) = 2

\* C15: a closure step on a stack of at least 3 points with top three p1, p2,
\* p3, X = |p3 - p2|, Y = |p2 - p1|: X < Y emits nothing and leaves the stack;
\* X >= Y emits a cycle over (p1, p2): a half cycle leaving p2, p3 when the
\* stack has exactly 3 points, a full cycle removing p1 and p2 and keeping p3
\* and everything below p1 in order when it has more.
C15_Step ==
  (pc = "close" /\ Len(points) >= 3) =>
     LET n == Len(points)
         p1 == points[n - 2]
         p2 == points[n - 1]
         p3 == points[n]
         X == Dist(p3[2], p2[2])
         Y == Dist(p2[2], p1[2])
     IN /\ X < Y => cycles' = cycles /\ points' = points /\ pc' = "feed"
        /\ (X >= Y /\ n = 3) =>
              /\ cycles' = Append(cycles, CycleOver(p1, p2, HalfCount))
              /\ points' = <<p2, p3>>
        /\ (X >= Y /\ n > 3) =>
              /\ cycles' = Append(cycles, CycleOver(p1, p2, FullCount))
              /\ points' = Append(SubSeq(points, 1, n - 3), p3)

C15_ClosureStep == [][C15_Step]_vars

\* a tie X = Y on a stack of more than 3 points, about to close a full cycle
C15_Witness ==
  /\ pc = "close" /\ Len(points) > 3
  /\ Dist(points[Len(points)][2], points[Len(points) - 1][2])
       = Dist(points[Len(points) - 1][2], points[Len(points) - 2][2])
  /\ cycles # <<>>

\* a closure iteration stops the loop or strictly shrinks the stack
C16_Shrinks ==
  pc = "close" => (pc' = "feed" /\ points' = points) \/ Len(points') < Len(points)

\* a drain iteration emits a half cycle over the two oldest points and drops the oldest
C16_DrainStep ==
  (pc = "drain" /\ pc' = "drain") =>
     /\ Len(points) >= 2
     /\ cycles' = Append(cycles, formatOutput(points[1], points[2], HalfCount))
     /\ points' = Tail(points)

\* C16: extractCycles terminates; each closure iteration stops or strictly
\* shrinks the working stack, the drain emits only half cycles over the two
\* oldest points, and on return at most one point is left in the stack.
C16_Terminates ==
  /\ <>Extracted
  /\ [][C16_Shrinks /\ C16_DrainStep]_vars
  /\ [](Extracted => Len(points) <= 1)

\* returned after closure steps and at least two drain steps
C16_Witness ==
  /\ Extracted /\ Len(points) = 1 /\ Len(result) >= 5
  /\ NumFull >= 1
  /\ Len(cycles) >= 3
  /\ cycles[Len(cycles)][3] = HalfCount /\ cycles[Len(cycles) - 1][3] = HalfCount

\* reversals taken from the for-of so far
ConsumedCount == k - 1

\* C17: in every reachable state (points in the stack) + (half cycles) +
\* 2 * (full cycles) = (reversals consumed so far); so the stack never holds
\* more points than reversals consumed, and on return
\* halfCycles + 2 * fullCycles = numberOfReversals - 1.
C17_Accounting ==
  /\ Len(points) + NumHalf + 2 * NumFull = ConsumedCount
  /\ Len(points) <= ConsumedCount
  /\ NumHalf + NumFull = Len(cycles)
  /\ Extracted => NumHalf + 2 * NumFull = Len(result) - 1

\* in the middle of the for-of, after a full cycle, with points still on the stack
C17_Witness ==
  /\ pc = "close" /\ k <= Len(result)
  /\ NumFull >= 1 /\ Len(points) >= 2

Alternates(vs) ==
  /\ \A j \in 1..(Len(vs) - 1) : vs[j] # vs[j + 1]
  /\ \A j \in 1..(Len(vs) - 2) : (vs[j + 1] - vs[j]) * (vs[j + 2] - vs[j + 1]) < 0

\* C18: for every signal of length >= 2 that is not constant the reversal
\* sequence strictly alternates direction, every stack operation keeps
\* adjacent stack points unequal and alternating, every emitted cycle has
\* range > 0 and a histogram binned with a width > 0 has no bucket 0; a cycle
\* of range 0 (and bucket 0) arises only when all samples are equal.
C18_Zigzag ==
  ValidSignal =>
     /\ ~ConstantSignal =>
          /\ Scanned => Alternates(Values(result))
          /\ Alternates(Values(points))
          /\ \A p \in DOMAIN cycles : cycles[p][1] > 0
          /\ (Returned /\ PositiveBin) => EntriesAt(0) = {}
     /\ ConstantSignal =>
          /\ Extracted => Len(cycles) = 1 /\ cycles[1][1] = 0
          /\ (Returned /\ PositiveBin) => HistNum = <<<<0, HalfCount>>>>

\* a stack of four alternating points left after a full cycle was closed
C18_Witness ==
  /\ ValidSignal /\ ~ConstantSignal
  /\ pc = "close" /\ Len(points) >= 3 /\ NumFull >= 1

C18_WitnessBinned ==
  /\ ValidSignal /\ ~ConstantSignal /\ Returned /\ PositiveBin
  /\ NumFull >= 1 /\ Len(hist) >= 2

====
